---- MODULE Spec2Model ----
(***************************************************************************)
(* react-use-debounce (src/src/index.ts): the three hooks                  *)
(* useUnsafeDebounce, useDebounce and useDebouncedState, as the state      *)
(* machine of ONE component instance that uses one of them, together with  *)
(* the two collaborators the hooks drive: the timer service (setTimeout /  *)
(* clearTimeout) and the component lifecycle (render, effect cleanup at    *)
(* unmount).                                                               *)
(*                                                                         *)
(* Time is discrete: Tick advances the clock by one unit, a timer may fire *)
(* once its remaining delay is 0.  A timer that is due may fire late.      *)
(* `calls` and `log` are the observable history: the calls made to the     *)
(* debounced handle and the invocations of the wrapped function.           *)
(***************************************************************************)
EXTENDS Naturals, Sequences, FiniteSets

\* ---------------------------------------------------------------- bounds
\* Calls to the debounced handle in one component lifetime.
MaxCalls == 3
\* The delays a render may pass, 0..MaxDelay clock units.
MaxDelay == 1

\* ---------------------------------------------------------------- inputs
\* The hook the component instance uses.
Hooks == {"useUnsafeDebounce", "useDebounce", "useDebouncedState"}

\* The value of a ref cell or variable that holds the JavaScript undefined.
Undefined == "undefined"

\* Function references a render may pass as `func` to the debounce hooks.
Funcs == {"f", "g"}

\* useDebouncedState passes its `setState` parameter as `func` to useDebounce.
FuncsOf(h) == IF h = "useDebouncedState" THEN {"setState"} ELSE Funcs

\* `delay` values a render may pass.
Delays == 0..MaxDelay

\* Argument tuples P of the debounced handle.
Args == {<<"a">>, <<"b">>}

\* Values S of the state pair.
Values == {"x", "y", "z"}

VARIABLES
    hook,             \* which hook this component instance uses
    mounted,          \* the component instance is alive
    func,             \* `func` of the most recent render (captured by the handle)
    delay,            \* `delay` of the most recent render (captured by the handle)
    timeoutRef,       \* timeoutRef.current: a timer id, 0 for undefined
    argsRef,          \* argsRef.current: << >> for undefined, else << args >>
    funcRef,          \* funcRef.current
    timers,           \* the timer service: the set of pending timers
    nextId,           \* the id the next setTimeout returns
    parentState,      \* the externally owned value (the parent's state)
    state,            \* `state` as seen by the most recent render
    hookState,        \* the useState cell of useDebouncedState
    internalState,    \* `internalState` as returned by the most recent render
    internalStateRef, \* internalStateRef.current
    calls,            \* history: the calls made to the debounced handle
    log,              \* history: the invocations of the wrapped function
    destroyedWith     \* history: the timers that were pending at unmount

vars == <<hook, mounted, func, delay, timeoutRef, argsRef, funcRef, timers, nextId,
          parentState, state, hookState, internalState, internalStateRef,
          calls, log, destroyedWith>>

debounceVars == <<timeoutRef, argsRef, timers, nextId>>
pairVars == <<state, hookState, internalState, internalStateRef>>

Safe == hook \in {"useDebounce", "useDebouncedState"}

\* ---------------------------------------------------------------- timer service
\* clearTimeout(id): the pending timers without the one named id
\* (a no-op for undefined and for an id that already fired).
clearTimeoutNoop(id) == timers
clearTimeout(id) == {t \in timers : t.id # id}

\* The closure `() => func(...args)` the handle passes to setTimeout: it
\* captures the handle's own `func` and the arguments of this call.
TimerCallbackFirstArgs(f, args) == [fn |-> f, args |-> IF calls = <<>> THEN args ELSE calls[1].args]
TimerCallback(f, args) == [fn |-> f, args |-> args]

\* setTimeout(cb, d) on the pending set `pending`: one more pending timer,
\* with the id nextId.  `call` remembers which handle call armed it.
setTimeout(pending, cb, d) ==
    pending \cup {[id |-> nextId, fn |-> cb.fn, args |-> cb.args,
                   remaining |-> d, call |-> Len(calls) + 1]}

\* ---------------------------------------------------------------- invocations
\* One invocation of a wrapped function, as recorded in `log`.
Entry(f, args, by, call) ==
    [fn |-> f, args |-> args, by |-> by, call |-> call,
     ncalls |-> Len(calls), latest |-> func]

\* The effect of invoking the wrapped functions of `entries` in order: the
\* parent's setter stores its argument in the parent's state.
Invoke(entries) ==
    /\ log' = log \o entries
    /\ parentState' =
         IF entries # <<>> /\ entries[Len(entries)].fn = "setState"
         THEN entries[Len(entries)].args[1]
         ELSE parentState

\* ---------------------------------------------------------------- useDebounce
\* The effect cleanup of useDebounce:
\*   argsRef.current !== undefined && funcRef.current?.(...argsRef.current)
CleanupCallsNone == <<>>
CleanupCallsUnguarded ==
    << Entry(funcRef, IF argsRef = <<>> THEN <<>> ELSE argsRef[1], "flush", Len(calls)) >>
CleanupCallsCaptured ==
    IF argsRef # <<>> /\ funcRef # Undefined
    THEN << Entry(calls[Len(calls)].func, argsRef[1], "flush", Len(calls)) >>
    ELSE <<>>
CleanupCalls ==
    IF argsRef # <<>> /\ funcRef # Undefined
    THEN << Entry(funcRef, argsRef[1], "flush", Len(calls)) >>
    ELSE <<>>

\* The debounced handle of either variant, called with args.
HandleFirstArgsOnly(args) ==
    /\ argsRef' = IF Safe /\ argsRef = <<>> THEN <<args>> ELSE argsRef
    /\ timers' = setTimeout(clearTimeout(timeoutRef), TimerCallback(func, args), delay)
    /\ timeoutRef' = nextId
    /\ nextId' = nextId + 1
    /\ calls' = Append(calls, [args |-> args, func |-> func])
Handle(args) ==
    /\ argsRef' = IF Safe THEN <<args>> ELSE argsRef
    /\ timers' = setTimeout(clearTimeout(timeoutRef), TimerCallback(func, args), delay)
    /\ timeoutRef' = nextId
    /\ nextId' = nextId + 1
    /\ calls' = Append(calls, [args |-> args, func |-> func])

\* The function a firing timer invokes: the one its closure captured.
TimerTargetLatest(t) == funcRef
TimerTarget(t) == t.fn

\* ---------------------------------------------------------------- useDebouncedState
\* The effect with dependency [state]: it runs when `state` differs from the
\* previous render's, and then
\*   if (state !== internalStateRef.current) setInternalState(state)
\* Returns the useState cell after the effect.
ExternalSyncEffectIdle(prev, s, ref, cell) ==
    IF s # prev /\ s # ref /\ timers = {} THEN s ELSE cell
ExternalSyncEffectEveryRender(prev, s, ref, cell) ==
    IF s # ref THEN s ELSE cell
ExternalSyncEffect(prev, s, ref, cell) ==
    IF s # prev /\ s # ref THEN s ELSE cell

\* ---------------------------------------------------------------- actions
Init ==
    /\ hook \in Hooks
    /\ mounted = TRUE
    /\ func \in FuncsOf(hook)
    /\ delay \in Delays
    /\ timeoutRef = 0
    /\ argsRef = <<>>
    /\ funcRef = IF Safe THEN func ELSE Undefined
    /\ timers = {}
    /\ nextId = 1
    /\ parentState \in (IF hook = "useDebouncedState" THEN Values ELSE {Undefined})
    /\ state = parentState
    /\ hookState = parentState
    /\ internalState = parentState
    /\ internalStateRef = parentState
    /\ calls = <<>>
    /\ log = <<>>
    /\ destroyedWith = {}

\* One render of the component: the hook body and the effects it schedules.
RenderCancelsPending(f, d) ==
    /\ mounted
    /\ func' = f
    /\ delay' = d
    /\ funcRef' = IF Safe THEN f ELSE funcRef
    /\ IF hook = "useDebouncedState"
       THEN /\ state' = parentState
            /\ internalState' = hookState
            /\ internalStateRef' = hookState
            /\ hookState' = ExternalSyncEffect(state, parentState, hookState, hookState)
            /\ timers' = IF parentState # state THEN clearTimeout(timeoutRef) ELSE timers
       ELSE UNCHANGED <<pairVars, timers>>
    /\ UNCHANGED <<hook, mounted, timeoutRef, argsRef, nextId, parentState, calls, log,
                   destroyedWith>>
Render(f, d) ==
    /\ mounted
    /\ func' = f
    /\ delay' = d
    /\ funcRef' = IF Safe THEN f ELSE funcRef
    /\ IF hook = "useDebouncedState"
       THEN /\ state' = parentState
            /\ internalState' = hookState
            /\ internalStateRef' = hookState
            /\ hookState' = ExternalSyncEffect(state, parentState, hookState, hookState)
       ELSE UNCHANGED pairVars
    /\ UNCHANGED <<hook, mounted, debounceVars, parentState, calls, log, destroyedWith>>

\* The caller invokes the handle returned by useUnsafeDebounce / useDebounce.
Call(args) ==
    /\ mounted
    /\ hook \in {"useUnsafeDebounce", "useDebounce"}
    /\ Len(calls) < MaxCalls
    /\ Handle(args)
    /\ UNCHANGED <<hook, mounted, func, delay, funcRef, parentState, pairVars,
                   log, destroyedWith>>

\* handleSetState(value) of useDebouncedState.
handleSetStateEager(value) ==
    /\ mounted
    /\ hook = "useDebouncedState"
    /\ Len(calls) < MaxCalls
    /\ hookState' = value
    /\ Handle(<<value>>)
    /\ Invoke(<< Entry(func, <<value>>, "call", Len(calls) + 1) >>)
    /\ UNCHANGED <<hook, mounted, func, delay, funcRef, state,
                   internalState, internalStateRef, destroyedWith>>
handleSetState(value) ==
    /\ mounted
    /\ hook = "useDebouncedState"
    /\ Len(calls) < MaxCalls
    /\ hookState' = value
    /\ Handle(<<value>>)
    /\ UNCHANGED <<hook, mounted, func, delay, funcRef, parentState, state,
                   internalState, internalStateRef, log, destroyedWith>>

\* The externally owned value changes through another channel.
ExternalChange(v) ==
    /\ hook = "useDebouncedState"
    /\ v # parentState
    /\ parentState' = v
    /\ UNCHANGED <<hook, mounted, func, delay, funcRef, debounceVars, pairVars,
                   calls, log, destroyedWith>>

\* The clock advances by one unit.
Tick ==
    /\ \E t \in timers : t.remaining > 0
    /\ timers' = {[t EXCEPT !.remaining = IF @ > 0 THEN @ - 1 ELSE 0] : t \in timers}
    /\ UNCHANGED <<hook, mounted, func, delay, funcRef, timeoutRef, argsRef, nextId,
                   parentState, pairVars, calls, log, destroyedWith>>

\* A due timer fires: the timer service runs its callback.  Nothing in the
\* hooks cancels a timer at unmount, so this is enabled after unmount too.
FireTimer ==
    \E t \in timers :
        /\ t.remaining = 0
        /\ timers' = timers \ {t}
        /\ Invoke(<< Entry(TimerTarget(t), t.args, "timer", t.call) >>)
        /\ UNCHANGED <<hook, mounted, func, delay, funcRef, timeoutRef, argsRef,
                       nextId, pairVars, calls, destroyedWith>>

\* The component instance is destroyed: the host runs the effect cleanups.
\* useUnsafeDebounce registers none.
Unmount ==
    /\ mounted
    /\ mounted' = FALSE
    /\ destroyedWith' = timers
    /\ Invoke(IF Safe THEN CleanupCalls ELSE <<>>)
    /\ UNCHANGED <<hook, func, delay, funcRef, debounceVars, pairVars, calls>>

Next ==
    \/ \E f \in FuncsOf(hook), d \in Delays : Render(f, d)
    \/ \E args \in Args : Call(args)
    \/ \E v \in Values : handleSetState(v)
    \/ \E v \in Values : ExternalChange(v)
    \/ Tick
    \/ FireTimer
    \/ Unmount

Spec == Init /\ [][Next]_vars

\* A component instance that uses useDebounce and is eventually destroyed;
\* nothing is assumed of the timer service after that.
InitLive == Init /\ hook = "useDebounce"

NextLive ==
    \/ \E f \in Funcs, d \in Delays : Render(f, d)
    \/ \E args \in Args : Call(args)
    \/ Tick
    \/ FireTimer
    \/ Unmount

SpecLive == InitLive /\ [][NextLive]_vars /\ WF_vars(Unmount)

\* ---------------------------------------------------------------- properties
\* The invocations recorded for the handle call number c.
Deliveries(c) == {i \in DOMAIN log : log[i].call = c}

\* The last handle call has been delivered with its own arguments.
LastCallDelivered ==
    \E i \in DOMAIN log :
        /\ log[i].call = Len(calls)
        /\ log[i].args = calls[Len(calls)].args

\* C1: useDebounce and useUnsafeDebounce: a run of N >= 1 handle calls with no
\* timer fire in between is delivered exactly once, by the timer fire that
\* follows the Nth call and with the Nth call's arguments.  Every invocation
\* made by a timer is for the call that was the last one when it fired, carries
\* that call's arguments, and no call is fired twice; while the instance is
\* alive and no timer is pending, the last call has exactly one invocation.
C1_TrailingOnce ==
    hook \in {"useUnsafeDebounce", "useDebounce"} =>
        /\ \A i \in DOMAIN log :
              log[i].by = "timer" =>
                  /\ log[i].call = log[i].ncalls
                  /\ log[i].args = calls[log[i].call].args
                  /\ \A j \in DOMAIN log :
                        (j # i /\ log[j].by = "timer") => log[j].call # log[i].call
        /\ (mounted /\ timers = {} /\ calls # <<>>) =>
              Cardinality(Deliveries(Len(calls))) = 1

\* A run of three calls with different arguments was delivered once, by the timer.
C1_Witness ==
    /\ hook \in {"useUnsafeDebounce", "useDebounce"}
    /\ mounted
    /\ Len(calls) = 3
    /\ calls[1].args # calls[3].args
    /\ Len(log) = 1
    /\ log[1].by = "timer"
    /\ log[1].call = 3

\* C2: useDebounce: a call that was pending when the instance was destroyed is
\* invoked exactly once, by the flush during destruction and with the last
\* call's arguments, and never a second time.
C2_FlushExactlyOnce ==
    (hook = "useDebounce" /\ ~mounted) =>
        \A t \in destroyedWith :
            /\ Cardinality(Deliveries(t.call)) = 1
            /\ \A i \in Deliveries(t.call) :
                  log[i].by = "flush" /\ log[i].args = calls[t.call].args

\* C3: useUnsafeDebounce: a call that was pending when the instance was
\* destroyed is discarded: the wrapped function is never invoked for it.
C3_PendingDiscarded ==
    (hook = "useUnsafeDebounce" /\ ~mounted) =>
        \A t \in destroyedWith : Deliveries(t.call) = {}

\* C4: useDebounce: a call is delivered by the timer or by the teardown flush,
\* never by both; here the case in which no timer was pending at destruction
\* (the timer had already fired for the last call).
C4_TimerXorFlush ==
    (hook = "useDebounce" /\ ~mounted /\ destroyedWith = {}) =>
        \A i, j \in DOMAIN log :
            (log[i].by = "timer" /\ log[j].by = "flush") => log[i].call # log[j].call

\* C5: useDebounce: if the handle was never called, the wrapped function is
\* never invoked, destruction included.
C5_NoCallNoFlush ==
    (Safe /\ calls = <<>>) => log = <<>>

\* The instance was destroyed without a single handle call.
C5_Witness ==
    /\ hook = "useDebounce"
    /\ ~mounted
    /\ calls = <<>>

\* C6: useDebounce, liveness: once the handle has been called, the instance
\* being destroyed leads to the last call having been delivered with its
\* arguments.
C6_LastCallNeverLost ==
    (hook = "useDebounce" /\ calls # <<>>) ~> (~mounted /\ LastCallDelivered)

\* The instance was destroyed with a call pending and the flush delivered it.
C6_Witness ==
    /\ hook = "useDebounce"
    /\ ~mounted
    /\ destroyedWith # {}
    /\ timers # {}
    /\ \E i \in DOMAIN log :
          /\ log[i].by = "flush"
          /\ log[i].call = Len(calls)
          /\ log[i].args = calls[Len(calls)].args

\* C7: useDebouncedState: setValue(v) stores v in the state cell, so the next
\* render returns v as currentValue, and does not invoke externalSetter; every
\* invocation of externalSetter is made by a timer fire or the teardown flush.
C7_SetValueLocalOnly ==
    [][hook = "useDebouncedState" =>
          /\ (calls' # calls) =>
                /\ hookState' = calls'[Len(calls')].args[1]
                /\ log' = log
                /\ parentState' = parentState
          /\ (state' # state \/ internalState' # internalState) =>
                internalState' = hookState
          /\ (log' # log) =>
                /\ Len(log') = Len(log) + 1
                /\ log'[Len(log')].by \in {"timer", "flush"}
                /\ (timers' # timers \/ (mounted /\ ~mounted'))
      ]_vars

\* After setValue(v) and a render, currentValue is v while the external value
\* is still the old one and externalSetter has not been invoked.
C7_Witness ==
    /\ hook = "useDebouncedState"
    /\ calls # <<>>
    /\ log = <<>>
    /\ timers # {}
    /\ internalState = calls[Len(calls)].args[1]
    /\ internalState # parentState

\* C8: useDebouncedState: a render that observes a changed external value
\* leaves the state cell holding that value, whether or not a propagation is
\* pending.
C8_ExternalChangeResyncs ==
    [][(hook = "useDebouncedState" /\ state' # state) => hookState' = state']_vars

\* A propagation is pending, externalSetter was never invoked, and currentValue
\* is the externally changed value, not the value of the last setValue.
C8_Witness ==
    /\ hook = "useDebouncedState"
    /\ calls # <<>>
    /\ timers # {}
    /\ log = <<>>
    /\ state = parentState
    /\ hookState = parentState
    /\ internalState = parentState
    /\ internalState # calls[Len(calls)].args[1]

\* C9: at most one timer is pending per debounced-function instance.
C9_AtMostOneTimer ==
    Cardinality(timers) <= 1

\* The second call, made through a handle recomputed for another func, replaced
\* the timer of the first, which had not fired.
C9_Witness ==
    /\ Len(calls) = 2
    /\ calls[1].func # calls[2].func
    /\ log = <<>>
    /\ \E t \in timers : t.call = 2

\* C10 as stated: useDebounce: a firing timer invokes the function reference of
\* the most recent render.
C10_TimerInvokesLatest ==
    hook = "useDebounce" =>
        \A i \in DOMAIN log : log[i].by = "timer" => log[i].fn = log[i].latest

\* C10 as amended: useDebounce: a firing timer invokes the function reference
\* that the handle captured when the call that armed the timer was made.
C10_TimerInvokesCaptured ==
    hook = "useDebounce" =>
        \A i \in DOMAIN log : log[i].by = "timer" => log[i].fn = calls[log[i].call].func

\* A timer fired after a render had replaced the function reference.
C10_Witness ==
    /\ hook = "useDebounce"
    /\ \E i \in DOMAIN log :
          /\ log[i].by = "timer"
          /\ log[i].fn # log[i].latest
          /\ log[i].fn = calls[log[i].call].func

\* C11: useDebounce: the teardown flush invokes the function reference of the
\* most recent render with the arguments of the most recent handle call, also
\* when that reference changed after the arguments were captured.
C11_FlushInvokesLatest ==
    hook = "useDebounce" =>
        \A i \in DOMAIN log :
            log[i].by = "flush" =>
                /\ log[i].fn = log[i].latest
                /\ log[i].call = Len(calls)
                /\ log[i].args = calls[Len(calls)].args

\* The flush invoked a function other than the one current at the last call,
\* with the last of two different argument tuples.
C11_Witness ==
    /\ hook = "useDebounce"
    /\ ~mounted
    /\ Len(calls) = 2
    /\ calls[1].args # calls[2].args
    /\ \E i \in DOMAIN log :
          /\ log[i].by = "flush"
          /\ log[i].fn # calls[2].func
          /\ log[i].fn = func
          /\ log[i].args = calls[2].args

\* C12: useDebouncedState: an external-value change, and the render that
\* observes it, leave the pending timer, the timer id and the captured argument
\* as they were and invoke nothing, so an idle instance stays idle and a pending
\* propagation stays pending; every later invocation of externalSetter carries
\* the argument of the last setValue call.
C12_ExternalChangeFrame ==
    [][hook = "useDebouncedState" =>
          /\ ((parentState' # parentState /\ log' = log) \/ state' # state) =>
                /\ timers' = timers
                /\ timeoutRef' = timeoutRef
                /\ argsRef' = argsRef
                /\ calls' = calls
                /\ log' = log
          /\ (log' # log) =>
                /\ log'[Len(log')].call = Len(calls)
                /\ log'[Len(log')].args = calls[Len(calls)].args
      ]_vars

\* An external change was observed while a propagation was pending: the timer
\* is still pending and due, and it and argsRef hold the setValue argument,
\* which differs from the current value.
C12_Witness ==
    /\ hook = "useDebouncedState"
    /\ mounted
    /\ Len(calls) = 1
    /\ log = <<>>
    /\ state = parentState
    /\ hookState = parentState
    /\ internalState = parentState
    /\ argsRef = <<calls[1].args>>
    /\ argsRef[1][1] # hookState
    /\ \E t \in timers : t.remaining = 0 /\ t.args = calls[1].args /\ t.id = timeoutRef

\* C13: useDebouncedState: a render that is passed the same external value as
\* the render before it leaves the state cell alone and returns it as
\* currentValue, so after setValue(v) the value stays v over any number of such
\* renders although the external value differs from v.  (The external value is
\* the `state` argument of the renders.)
C13_LocalEditKept ==
    [][(hook = "useDebouncedState" /\ state' = state /\ calls' = calls) =>
          /\ hookState' = hookState
          /\ (internalState' # internalState => internalState' = hookState)
      ]_vars

\* After setValue(v) a render returned v as currentValue and kept it in the
\* cell, while the external value it was passed is unchanged and differs from v.
C13_Witness ==
    /\ hook = "useDebouncedState"
    /\ mounted
    /\ Len(calls) = 1
    /\ log = <<>>
    /\ hookState = calls[1].args[1]
    /\ internalState = hookState
    /\ internalStateRef = hookState
    /\ state = parentState
    /\ state # hookState
    /\ \E t \in timers : t.remaining < delay

\* C14: useDebouncedState: the render that observes the external value become
\* the value this pair itself propagated (by a timer fire) does not overwrite a
\* local edit made by a setValue call after that propagation.
C14_OwnEchoKeepsNewerEdit ==
    [][(/\ hook = "useDebouncedState"
        /\ state' # state
        /\ log # <<>>
        /\ log[Len(log)].by = "timer"
        /\ state' = log[Len(log)].args[1]
        /\ Len(calls) > log[Len(log)].ncalls
        /\ hookState = calls[Len(calls)].args[1])
       => hookState' = hookState
      ]_vars

\* C15: useDebounce: whenever a timer is pending, argsRef.current is the
\* argument tuple that timer captured, so the flush and the timer fire would
\* deliver the same arguments; and argsRef.current is set exactly when the
\* handle has been called at least once.
C15_ArgsRefMatchesPending ==
    Safe =>
        /\ \A t \in timers : argsRef = <<t.args>>
        /\ (argsRef # <<>>) <=> (calls # <<>>)

\* A second call with other arguments is pending: argsRef and the timer both
\* hold the second call's arguments.
C15_Witness ==
    /\ hook = "useDebounce"
    /\ mounted
    /\ Len(calls) = 2
    /\ calls[1].args # calls[2].args
    /\ argsRef = <<calls[2].args>>
    /\ \E t \in timers : t.call = 2 /\ t.args = calls[2].args

====
